---- MODULE Spec2Model ----
(***************************************************************************)
(* Model of @novice1/validator-json (src/src/index.ts): the schema         *)
(* locator (retrieveParametersValue, retrieveSchema), the request          *)
(* extractor (buildValueToValidate) and the middleware returned by         *)
(* validatorJson.  JavaScript values are tagged records; the Ajv engine    *)
(* is an external collaborator whose verdict is drawn nondeterministically.*)
(***************************************************************************)
EXTENDS Integers, Sequences, FiniteSets, TLC

VARIABLES
    options,        \* validatorJson argument 1 (default engine options)
    onerror,        \* validatorJson argument 2 (default error handler)
    schemaProperty, \* validatorJson argument 3 (property path)
    defaultAjv,     \* the engine instance built at factory creation
    ajvInstances,   \* every engine instance constructed so far: id -> options
    ajvUsed,        \* per handled request: the engine instance it used, or NoAjv
    parameters,     \* req.meta?.parameters of the last request
    req,            \* facets of the last request
    schema,         \* the schema located for the last request
    values,         \* the values extracted for the last request
    ajv,            \* the engine instance selected for the last request
    errors,         \* validate.errors after the last request's validation
    err,            \* the error payload built for the last request
    calls,          \* calls the middleware made while handling the last request
    outcome         \* how the last invocation ended

vars == <<options, onerror, schemaProperty, defaultAjv, ajvInstances,
          ajvUsed, parameters, req, schema, values, ajv, errors, err,
          calls, outcome>>

(***************************************************************************)
(* JavaScript values                                                       *)
(***************************************************************************)
Undef == [k |-> "undef"]
Null == [k |-> "null"]
Str(s) == [k |-> "str", s |-> s]
Num(n) == [k |-> "num", n |-> n]
Fn(name) == [k |-> "fn", name |-> name]
Arr(e) == [k |-> "arr", e |-> e]
Obj(f) == [k |-> "obj", f |-> f]
\* a property path given as a string: the sequence of its tokens, each token
\* being ".", "[", "]" or a run of other characters
PStr(chars) == [k |-> "pstr", chars |-> chars]

NoKeys == [key \in {} |-> Undef]
EmptyObj == Obj(NoKeys)

\* ToBoolean
Truthy(v) ==
    CASE v.k = "undef" -> FALSE
      [] v.k = "null" -> FALSE
      [] v.k = "str" -> v.s # ""
      [] v.k = "pstr" -> Len(v.chars) > 0
      [] v.k = "num" -> v.n # 0
      [] OTHER -> TRUE

\* the typeof operator
TypeOf(v) ==
    CASE v.k = "undef" -> "undefined"
      [] v.k = "str" -> "string"
      [] v.k = "pstr" -> "string"
      [] v.k = "num" -> "number"
      [] v.k = "fn" -> "function"
      [] OTHER -> "object"

IsArray(v) == v.k = "arr"

\* property names of array indices
IndexKey == <<"0", "1", "2">>

\* own keys of an object or array (members inherited from the prototype,
\* which the in operator also finds, are left out of the model)
Keys(v) ==
    CASE v.k = "obj" -> DOMAIN v.f
      [] v.k = "arr" -> {IndexKey[i] : i \in 1..Len(v.e)} \cup {"length"}
      [] OTHER -> {}

\* key in v, for v an object or an array
In(key, v) == key \in Keys(v)

\* v[key]
Get(v, key) ==
    CASE v.k = "obj" /\ key \in DOMAIN v.f -> v.f[key]
      [] v.k = "arr" /\ key = "length" -> Num(Len(v.e))
      [] v.k = "arr" /\ key \in Keys(v) ->
            v.e[CHOOSE i \in 1..Len(v.e) : IndexKey[i] = key]
      [] OTHER -> Undef

\* ToString, as the == operator applies it to its object operand
RECURSIVE JsToString(_)
RECURSIVE JoinFrom(_, _)
JoinFrom(e, i) ==
    IF i > Len(e) THEN ""
    ELSE (IF e[i].k \in {"undef", "null"} THEN "" ELSE JsToString(e[i]))
         \o (IF i < Len(e) THEN "," \o JoinFrom(e, i + 1) ELSE "")
JsToString(v) ==
    CASE v.k = "str" -> v.s
      [] v.k = "arr" -> JoinFrom(v.e, 1)
      [] v.k = "obj" -> "[object Object]"
      [] v.k = "fn" -> "function " \o v.name \o "() {}"
      [] v.k = "num" -> IF v.n \in 0..2 THEN IndexKey[v.n + 1] ELSE "NaN"
      [] v.k = "undef" -> "undefined"
      [] OTHER -> "null"

\* v == s for a string s that is not numeric
LooseEqualsString(v, s) ==
    CASE v.k = "str" -> v.s = s
      [] v.k \in {"arr", "obj", "fn"} -> JsToString(v) = s
      [] OTHER -> FALSE

PARAMETERS_PROPS == <<"params", "body", "query", "headers", "cookies", "files">>

(***************************************************************************)
(* Schema locator                                                          *)
(***************************************************************************)
\* property.replace(/\[([^[\]]*)\]/g, '.$1.') from position i on
RECURSIVE ReplaceBrackets(_, _)
ReplaceBrackets(s, i) ==
    IF i > Len(s) THEN <<>>
    ELSE IF s[i] = "["
         THEN LET stops == {j \in (i + 1)..Len(s) : s[j] \in {"[", "]"}}
                  j == IF stops = {} THEN 0
                       ELSE CHOOSE m \in stops : \A n \in stops : m <= n
              IN  IF j # 0 /\ s[j] = "]"
                  THEN <<".">> \o SubSeq(s, i + 1, j - 1) \o <<".">>
                       \o ReplaceBrackets(s, j + 1)
                  ELSE <<s[i]>> \o ReplaceBrackets(s, i + 1)
         ELSE <<s[i]>> \o ReplaceBrackets(s, i + 1)

\* .split('.'): the pieces between the dots, cur being the piece under way
RECURSIVE SplitDots(_, _, _)
SplitDots(s, i, cur) ==
    IF i > Len(s) THEN <<cur>>
    ELSE IF s[i] = "." THEN <<cur>> \o SplitDots(s, i + 1, "")
    ELSE SplitDots(s, i + 1, cur \o s[i])

\* .filter((t) => t !== '')
RECURSIVE FilterNonEmpty(_)
FilterNonEmpty(ts) ==
    IF ts = <<>> THEN <<>>
    ELSE (IF Head(ts) # "" THEN <<Head(ts)>> ELSE <<>>)
         \o FilterNonEmpty(Tail(ts))

\* the split pieces used as they come, empty ones included
PathSegments_Unfiltered(chars) == SplitDots(ReplaceBrackets(chars, 1), 1, "")

PathSegments(chars) ==
    FilterNonEmpty(SplitDots(ReplaceBrackets(chars, 1), 1, ""))

\* the reducer callback
ReduceStep(prev, curr) ==
    IF Truthy(prev) /\ TypeOf(prev) = "object" /\ In(curr, prev)
    THEN Get(prev, curr)
    ELSE Undef

\* .reduce(callback, initial)
RECURSIVE Reduce(_, _)
Reduce(segs, prev) ==
    IF segs = <<>> THEN prev
    ELSE Reduce(Tail(segs), ReduceStep(prev, Head(segs)))

\* the property path ignored: the whole configuration located
retrieveParametersValue_WholeConfig(params, property) ==
    IF Truthy(params) /\ TypeOf(params) = "object" THEN params ELSE Null

retrieveParametersValue(params, property) ==
    IF Truthy(params) /\ TypeOf(params) = "object"
    THEN IF Truthy(property) /\ TypeOf(property) = "string"
         THEN LET subParameters == Reduce(PathSegments(property.chars), params)
              IN  IF Truthy(subParameters) /\ TypeOf(subParameters) = "object"
                     /\ ~IsArray(subParameters)
                  THEN subParameters
                  ELSE Null
         ELSE params
    ELSE Null

\* every located value wrapped, a full object schema included
retrieveSchema_AlwaysWrap(params, property) ==
    LET v == retrieveParametersValue(params, property)
    IN  IF Truthy(v)
        THEN Obj([type |-> Str("object"), properties |-> v])
        ELSE v

\* the props object built in the wrapping branch is never read: the whole
\* located value becomes properties
retrieveSchema(params, property) ==
    LET v == retrieveParametersValue(params, property)
    IN  IF Truthy(v)
           /\ ~(In("type", v) /\ LooseEqualsString(Get(v, "type"), "object")
                /\ In("properties", v))
        THEN Obj([type |-> Str("object"), properties |-> v])
        ELSE v

(***************************************************************************)
(* Request extractor                                                       *)
(***************************************************************************)
Range(s) == {s[i] : i \in DOMAIN s}

\* only the facets whose entry in properties is itself an object
buildValueToValidate_ObjectEntries(sch, request) ==
    IF In("properties", sch) /\ Truthy(Get(sch, "properties"))
       /\ TypeOf(Get(sch, "properties")) = "object"
    THEN LET properties == Get(sch, "properties")
         IN  Obj([p \in {q \in Range(PARAMETERS_PROPS) :
                            /\ In(q, properties)
                            /\ Truthy(Get(properties, q))
                            /\ TypeOf(Get(properties, q)) = "object"}
                    |-> request[p]])
    ELSE EmptyObj

\* the body facet left out
buildValueToValidate_NoBody(sch, request) ==
    IF In("properties", sch) /\ Truthy(Get(sch, "properties"))
       /\ TypeOf(Get(sch, "properties")) = "object"
    THEN LET properties == Get(sch, "properties")
         IN  Obj([p \in {q \in Range(PARAMETERS_PROPS) \ {"body"} :
                            In(q, properties)}
                    |-> request[p]])
    ELSE EmptyObj

buildValueToValidate(sch, request) ==
    IF In("properties", sch) /\ Truthy(Get(sch, "properties"))
       /\ TypeOf(Get(sch, "properties")) = "object"
    THEN LET properties == Get(sch, "properties")
         IN  Obj([p \in {q \in Range(PARAMETERS_PROPS) : In(q, properties)}
                    |-> request[p]])
    ELSE EmptyObj

(***************************************************************************)
(* Middleware factory                                                      *)
(***************************************************************************)
NoAjv == 0

\* what the Ajv engine does during one invocation: whether new Ajv(options)
\* and ajv.compile(schema) return, and the errors validate(values) leaves on
\* validate.errors (none when the values are valid)
EngineError(keyword, path) ==
    Obj([keyword |-> Str(keyword), instancePath |-> Str(path)])
ErrRequired == EngineError("required", "/body")
ErrType == EngineError("type", "/query")
EngineRuns ==
    {[construct |-> TRUE, compile |-> TRUE, errors |-> <<>>],
     [construct |-> TRUE, compile |-> TRUE, errors |-> <<ErrRequired, ErrType>>],
     [construct |-> TRUE, compile |-> TRUE, errors |-> <<ErrType, ErrRequired>>],
     [construct |-> TRUE, compile |-> FALSE, errors |-> <<>>],
     [construct |-> FALSE, compile |-> TRUE, errors |-> <<>>]}

\* The engine on schemas written only with the keywords type ("object" or
\* "string"), properties, required and minLength: compile returns and
\* validate follows JSON Schema, where properties constrains only the members
\* that are present.  On any other schema the engine stays a black box.
RECURSIVE KnownSchema(_)
KnownSchema(s) ==
    /\ s.k = "obj"
    /\ DOMAIN s.f \subseteq {"type", "properties", "required", "minLength"}
    /\ "type" \in DOMAIN s.f => s.f["type"] \in {Str("object"), Str("string")}
    /\ "properties" \in DOMAIN s.f =>
          /\ s.f["properties"].k = "obj"
          /\ \A key \in DOMAIN s.f["properties"].f :
                KnownSchema(s.f["properties"].f[key])
    /\ "required" \in DOMAIN s.f =>
          /\ s.f["required"].k = "arr"
          /\ \A i \in DOMAIN s.f["required"].e : s.f["required"].e[i].k = "str"
    /\ "minLength" \in DOMAIN s.f => s.f["minLength"].k = "num"

MissingError(path, name) ==
    Obj([keyword |-> Str("required"), instancePath |-> Str(path),
         params |-> Obj([missingProperty |-> Str(name)])])

\* a member of an object that is there to be validated
Present(v, key) == v.k = "obj" /\ key \in DOMAIN v.f /\ v.f[key].k # "undef"

\* the errors of data v at path against the known schema s; members are
\* visited in an order the model fixes arbitrarily
RECURSIVE SchemaErrors(_, _, _)
RECURSIVE MemberErrors(_, _, _, _)
MemberErrors(props, v, path, todo) ==
    IF todo = {} THEN <<>>
    ELSE LET key == CHOOSE m \in todo : TRUE
         IN  SchemaErrors(props.f[key], v.f[key], path \o "/" \o key)
             \o MemberErrors(props, v, path, todo \ {key})
SchemaErrors(s, v, path) ==
    LET has(key) == key \in DOMAIN s.f
        typeOk == \/ ~has("type")
                  \/ s.f["type"] = Str("object") /\ v.k = "obj"
                  \/ s.f["type"] = Str("string") /\ v.k = "str"
        names == IF has("required") /\ v.k = "obj"
                 THEN s.f["required"].e ELSE <<>>
        missing == SelectSeq(names, LAMBDA n : ~Present(v, n.s))
        short == has("minLength") /\ v.k = "str" /\ Len(v.s) < s.f["minLength"].n
    IN  IF ~typeOk THEN <<EngineError("type", path)>>
        ELSE [i \in DOMAIN missing |-> MissingError(path, missing[i].s)]
             \o (IF short THEN <<EngineError("minLength", path)>> ELSE <<>>)
             \o (IF has("properties") /\ v.k = "obj"
                 THEN MemberErrors(s.f["properties"], v, path,
                        {key \in DOMAIN s.f["properties"].f : Present(v, key)})
                 ELSE <<>>)

\* every error is reported with allErrors, the first one only without
Reported(opts, errs) ==
    IF Get(opts, "allErrors") = Str("true") \/ errs = <<>> THEN errs
    ELSE <<errs[1]>>

\* what the engine built from opts does with sch and vals: decided by the
\* schema when it is a known one, by run otherwise
Engine(opts, sch, vals, run) ==
    IF KnownSchema(sch)
    THEN [run EXCEPT !.compile = TRUE,
                     !.errors = Reported(opts, SchemaErrors(sch, vals, ""))]
    ELSE run

\* the exception caught and passed on with next()
Thrown_Caught(sofar, made) ==
    sofar @@ [calls |-> Append(made, [op |-> "next", arg |-> Undef]),
              outcome |-> "next"]

\* an exception leaving the handler: nothing is caught, nothing more is called
Thrown(sofar, made) == sofar @@ [calls |-> made, outcome |-> "thrown"]

Call(op, arg) == [op |-> op, arg |-> arg]
CallOnerror(fn, e) ==
    [op |-> "onerror", arg |-> e, fn |-> fn, rest |-> <<"req", "res", "next">>]
CallAjv(op, id, arg) == [op |-> op, arg |-> arg, ajv |-> id]

\* req.meta.parameters?.validatorJsonOptions ? new Ajv(...) : defaultAjv
\* the instance id selected, and the options a new instance is built from
\* the options looked up in the located sub-object
UsesRouteAjv_InSchema(params) ==
    Truthy(Get(retrieveParametersValue(params, schemaProperty),
               "validatorJsonOptions"))

UsesRouteAjv(params) == Truthy(Get(params, "validatorJsonOptions"))
\* the default instance whatever the route says
SelectAjv_AlwaysDefault(params, instances, dflt) == dflt

SelectAjv(params, instances, dflt) ==
    IF UsesRouteAjv(params) THEN Len(instances) + 1 ELSE dflt

\* validate.errors once validate(values) has returned
ValidateErrors(run) == IF run.errors = <<>> THEN Null ELSE Arr(run.errors)

\* only the first error kept
ErrorPayload_FirstOnly(errs) == Obj([errors |-> Arr(<<errs.e[1]>>)])

\* const { errors } = validate; const err = { errors }
ErrorPayload(errs) == Obj([errors |-> errs])

\* the factory's handler tried before the route's
FailurePath_DefaultFirst(params, dfltOnerror, e) ==
    IF Truthy(dfltOnerror) /\ TypeOf(dfltOnerror) = "function"
    THEN [calls |-> <<CallOnerror(dfltOnerror, e)>>,
          outcome |-> "defaultOnerror"]
    ELSE IF TypeOf(Get(params, "onerror")) = "function"
    THEN [calls |-> <<CallOnerror(Get(params, "onerror"), e)>>,
          outcome |-> "routeOnerror"]
    ELSE [calls |-> <<Call("res.status", Num(400)), Call("res.json", e)>>,
          outcome |-> "sent400"]

\* the fixed 400 not returned: next() follows the response
FailurePath_ThenNext(params, dfltOnerror, e) ==
    IF TypeOf(Get(params, "onerror")) = "function"
    THEN [calls |-> <<CallOnerror(Get(params, "onerror"), e)>>,
          outcome |-> "routeOnerror"]
    ELSE IF Truthy(dfltOnerror) /\ TypeOf(dfltOnerror) = "function"
    THEN [calls |-> <<CallOnerror(dfltOnerror, e)>>,
          outcome |-> "defaultOnerror"]
    ELSE [calls |-> <<Call("res.status", Num(400)), Call("res.json", e),
                      Call("next", Undef)>>,
          outcome |-> "sent400"]

\* the failure path: the calls made once validation has failed, and the
\* way the invocation ends
FailurePath(params, dfltOnerror, e) ==
    IF TypeOf(Get(params, "onerror")) = "function"
    THEN [calls |-> <<CallOnerror(Get(params, "onerror"), e)>>,
          outcome |-> "routeOnerror"]
    ELSE IF Truthy(dfltOnerror) /\ TypeOf(dfltOnerror) = "function"
    THEN [calls |-> <<CallOnerror(dfltOnerror, e)>>,
          outcome |-> "defaultOnerror"]
    ELSE [calls |-> <<Call("res.status", Num(400)), Call("res.json", e)>>,
          outcome |-> "sent400"]

\* one invocation of validatorJsonRequestHandler(req, res, next), run to its
\* end: params is req.meta?.parameters, request the facets of req, run0 what
\* the engine does where the model leaves it open
Invocation(params, request, run0) ==
    LET sch == retrieveSchema(params, schemaProperty)
        none == [schema |-> sch, values |-> Undef, ajv |-> NoAjv,
                 instances |-> ajvInstances, errors |-> Null, err |-> Undef]
    IN  IF ~Truthy(sch)
        THEN none @@ [calls |-> <<Call("next", Undef)>>, outcome |-> "next"]
        ELSE
        LET vals == buildValueToValidate(sch, request)
            opts == Get(params, "validatorJsonOptions")
            id == SelectAjv(params, ajvInstances, defaultAjv)
            built == IF UsesRouteAjv(params)
                     THEN <<Call("new Ajv", opts)>> ELSE <<>>
            insts == IF UsesRouteAjv(params)
                     THEN Append(ajvInstances, opts) ELSE ajvInstances
            sofar == [schema |-> sch, values |-> vals, ajv |-> id,
                      instances |-> insts, errors |-> Null, err |-> Undef]
            compiled == built \o <<CallAjv("compile", id, sch)>>
            validated == compiled \o <<CallAjv("validate", id, vals)>>
            run == Engine(IF UsesRouteAjv(params) THEN opts
                          ELSE ajvInstances[defaultAjv], sch, vals, run0)
        IN  IF UsesRouteAjv(params) /\ ~run.construct
            THEN Thrown([sofar EXCEPT !.ajv = NoAjv,
                                      !.instances = ajvInstances], built)
            ELSE IF ~run.compile
            THEN Thrown(sofar, compiled)
            ELSE IF run.errors = <<>>
            THEN sofar @@ [calls |-> Append(validated, Call("next", Undef)),
                           outcome |-> "next"]
            ELSE LET e == ErrorPayload(ValidateErrors(run))
                     f == FailurePath(params, onerror, e)
                 IN  [sofar EXCEPT !.errors = ValidateErrors(run), !.err = e]
                     @@ [calls |-> validated \o f.calls, outcome |-> f.outcome]

NoRequest == [p \in Range(PARAMETERS_PROPS) |-> Undef]

\* validatorJson(options, onerror, schemaProperty): const defaultAjv = new Ajv(options)
Factory(o, h, sp) ==
    /\ options = o
    /\ onerror = h
    /\ schemaProperty = sp
    /\ defaultAjv = 1
    /\ ajvInstances = <<o>>
    /\ ajvUsed = <<>>
    /\ parameters = Undef
    /\ req = NoRequest
    /\ schema = Null
    /\ values = Undef
    /\ ajv = NoAjv
    /\ errors = Null
    /\ err = Undef
    /\ calls = <<>>
    /\ outcome = "idle"

validatorJsonRequestHandler(params, request, run) ==
    \E r \in {Invocation(params, request, run)} :
        /\ parameters' = params
        /\ req' = request
        /\ schema' = r.schema
        /\ values' = r.values
        /\ ajv' = r.ajv
        /\ ajvInstances' = r.instances
        /\ ajvUsed' = Append(ajvUsed, r.ajv)
        /\ errors' = r.errors
        /\ err' = r.err
        /\ calls' = r.calls
        /\ outcome' = r.outcome
        /\ UNCHANGED <<options, onerror, schemaProperty, defaultAjv>>

(***************************************************************************)
(* Inputs                                                                  *)
(***************************************************************************)
MaxRequests == 2

\* obj with the key set to v
With(obj, key, v) == Obj((key :> v) @@ obj.f)

StringSchema == Obj([type |-> Str("string")])
NameSchema == Obj([type |-> Str("string"), minLength |-> Num(1)])
BodySchema ==
    Obj([type |-> Str("object"), properties |-> Obj([name |-> NameSchema])])
QuerySchema ==
    Obj([type |-> Str("object"), properties |-> Obj([version |-> StringSchema])])

\* a bare facet map and the same schema in its full-object shape
BodyFacets == Obj([body |-> BodySchema])
QueryFacets == Obj([query |-> QuerySchema])
BodyObject == Obj([type |-> Str("object"), properties |-> BodyFacets])
\* the full-object schema whose body schema requires name
RequiredBodyObject ==
    Obj([type |-> Str("object"),
         properties |->
            Obj([body |-> With(BodySchema, "required", Arr(<<Str("name")>>))])])

routeOnerror == Fn("routeOnerror")
defaultOnerror == Fn("onerror")
RouteOptions == Obj([allErrors |-> Str("false")])
DefaultOptions == Obj([allErrors |-> Str("true")])

\* req.meta?.parameters of the routes the middleware is mounted on
RouteParameters ==
    {Undef, Str("parameters"), EmptyObj, Arr(<<>>), Arr(<<BodyFacets>>),
     BodyFacets, BodyObject, RequiredBodyObject,
     Obj([body |-> BodySchema, query |-> QuerySchema]),
     With(BodyObject, "required", Arr(<<Str("body")>>)),
     With(BodyObject, "type", Arr(<<Str("object")>>)),
     With(BodyFacets, "onerror", routeOnerror),
     With(BodyFacets, "onerror", Str("routeOnerror")),
     With(BodyFacets, "validatorJsonOptions", RouteOptions),
     With(BodyObject, "validatorJsonOptions", EmptyObj),
     With(With(BodyObject, "onerror", routeOnerror),
          "validatorJsonOptions", RouteOptions),
     Obj([onerror |-> routeOnerror, validatorJsonOptions |-> RouteOptions]),
     Obj([schema |-> BodyFacets]),
     Obj([schema |-> BodyObject, onerror |-> routeOnerror]),
     Obj([schema |-> QueryFacets, otherField |-> BodyFacets]),
     Obj([schema |-> QueryFacets, body |-> BodySchema]),
     Obj([schema |-> With(BodyFacets, "onerror", routeOnerror),
          validatorJsonOptions |-> RouteOptions]),
     Obj([schema |-> With(BodyFacets, "validatorJsonOptions", RouteOptions)]),
     Obj([schema |-> Arr(<<BodyFacets>>)]),
     Obj([schema |-> Str("body")]),
     Obj([schema |-> Null, body |-> BodySchema]),
     Obj([a |-> Obj([b |-> BodyFacets])]),
     Obj([a |-> Obj([b |-> Fn("b")]), validatorJsonOptions |-> RouteOptions]),
     Obj([a |-> Arr(<<BodyObject>>), onerror |-> Num(1)])}

\* the facets of incoming requests; cookies and files are not populated
Request(body, query) ==
    [p \in Range(PARAMETERS_PROPS) |->
        CASE p = "body" -> body
          [] p = "query" -> query
          [] p = "params" -> Obj([id |-> Str("1")])
          [] p = "headers" -> Obj([host |-> Str("localhost")])
          [] OTHER -> Undef]
Requests ==
    {Request(Obj([name |-> Str("x")]), EmptyObj),
     Request(EmptyObj, Obj([version |-> Str("2")]))}

\* schemaProperty arguments the factory is created with
SchemaProperties ==
    {Undef, PStr(<<"schema">>), PStr(<<"a", "[", "b", "]">>),
     PStr(<<"a", ".", "0">>)}

DefaultHandlers == {Undef, defaultOnerror, Str("onerror")}

(***************************************************************************)
(* The middleware handling a sequence of requests                          *)
(***************************************************************************)
Init ==
    \E o \in {DefaultOptions}, h \in DefaultHandlers,
       sp \in SchemaProperties : Factory(o, h, sp)

Next ==
    /\ Len(ajvUsed) < MaxRequests
    /\ \E params \in RouteParameters, request \in Requests, run \in EngineRuns :
          validatorJsonRequestHandler(params, request, run)

Spec == Init /\ [][Next]_vars

(***************************************************************************)
(* Property paths as they are written                                      *)
(***************************************************************************)
\* segment sequences a path may address
SegmentSequences ==
    {<<>>, <<"schema">>, <<"a">>, <<"b">>, <<"a", "b">>, <<"a", "0">>,
     <<"a", "b", "c">>}

\* the ways of writing a segment sequence: each segment dot-separated or
\* bracket-indexed, with an empty segment (a lone dot) before the first
\* segment or after any of them
Writings(segs) ==
    [style : [1..Len(segs) -> {"dot", "bracket"}],
     empty : SUBSET (0..Len(segs))]

RECURSIVE WriteFrom(_, _, _)
WriteFrom(segs, w, i) ==
    IF i > Len(segs) THEN <<>>
    ELSE (IF w.style[i] = "bracket" THEN <<"[", segs[i], "]">>
          ELSE IF i = 1 THEN <<segs[i]>> ELSE <<".", segs[i]>>)
         \o (IF i \in w.empty THEN <<".">> ELSE <<>>)
         \o WriteFrom(segs, w, i + 1)

Write(segs, w) ==
    (IF 0 \in w.empty THEN <<".">> ELSE <<>>) \o WriteFrom(segs, w, 1)

\* the plain dotted writing; a path without segments is a lone dot
Dotted(segs) ==
    IF segs = <<>> THEN <<".">>
    ELSE Write(segs, [style |-> [i \in 1..Len(segs) |-> "dot"], empty |-> {}])

\* every non-empty path string with the segment sequence it is a writing of
WrittenPaths ==
    {wp \in UNION {{[segs |-> segs, chars |-> Write(segs, w)] :
                        w \in Writings(segs)} : segs \in SegmentSequences} :
        wp.chars # <<>>}

\* the segment sequence of a path that is written well
SegmentsOf(chars) == (CHOOSE wp \in WrittenPaths : wp.chars = chars).segs

(***************************************************************************)
(* The locator and the extractor on their own                              *)
(***************************************************************************)
\* values a path may lead to
Targets ==
    {EmptyObj, BodyFacets, BodyObject,
     Obj([params |-> StringSchema, headers |-> StringSchema,
          cookies |-> StringSchema, files |-> StringSchema]),
     Obj([body |-> Str("string"), query |-> Undef, other |-> StringSchema]),
     Obj([body |-> BodySchema, onerror |-> routeOnerror]),
     With(BodyObject, "required", Arr(<<Str("body")>>)),
     With(BodyObject, "additionalProperties", Str("false")),
     With(BodyObject, "type", Arr(<<Str("object")>>)),
     With(BodyObject, "type", Arr(<<Str("object"), Str("null")>>)),
     With(BodyObject, "type", Str("string")),
     With(BodyObject, "type", Null),
     Obj([type |-> Str("object")]),
     Obj([properties |-> BodyFacets]),
     Obj([type |-> Str("object"), properties |-> Null]),
     Obj([type |-> Str("object"), properties |-> Str("body")]),
     Obj([type |-> Str("object"), properties |-> Arr(<<BodySchema>>)]),
     Arr(<<>>), Arr(<<BodyFacets>>), Str("body"), Num(0), Num(1),
     Fn("schema"), Null, Undef}

LocateParameters ==
    Targets
    \cup {Obj([schema |-> t, body |-> BodySchema]) : t \in Targets}
    \cup {Obj([a |-> Obj([b |-> t])]) : t \in Targets}
    \cup {Obj([a |-> Arr(<<t>>), b |-> BodyFacets]) : t \in Targets}
    \cup {Obj([a |-> Obj([b |-> Obj([c |-> t])])]) : t \in Targets}

\* schemaProperty arguments: omitted, empty, well written, badly written
LocateProperties ==
    {Undef, PStr(<<>>)}
    \cup {PStr(wp.chars) : wp \in WrittenPaths}
    \cup {PStr(<<"a", "[", "b">>), PStr(<<"a", "]", "b">>),
          PStr(<<"a", "[", "[", "b", "]", "]">>)}

\* schemas the extractor is handed besides the located ones
ExtractSchemas ==
    {Obj([type |-> Str("object")]), EmptyObj,
     Obj([properties |-> Fn("properties")])}

InitLocate ==
    /\ options = DefaultOptions
    /\ onerror = Undef
    /\ defaultAjv = 1
    /\ ajvInstances = <<DefaultOptions>>
    /\ ajvUsed = <<>>
    /\ parameters \in LocateParameters
    /\ schemaProperty \in LocateProperties
    /\ req = NoRequest
    /\ schema = Null
    /\ values = Undef
    /\ ajv = NoAjv
    /\ errors = Null
    /\ err = Undef
    /\ calls = <<>>
    /\ outcome = "idle"

Locate ==
    /\ outcome = "idle"
    /\ schema' = retrieveSchema(parameters, schemaProperty)
    /\ outcome' = "located"
    /\ UNCHANGED <<options, onerror, schemaProperty, defaultAjv, ajvInstances,
                   ajvUsed, parameters, req, values, ajv, errors, err, calls>>

Extract(sch, request) ==
    /\ outcome = "located"
    /\ schema' = sch
    /\ req' = request
    /\ values' = buildValueToValidate(sch, request)
    /\ outcome' = "extracted"
    /\ UNCHANGED <<options, onerror, schemaProperty, defaultAjv, ajvInstances,
                   ajvUsed, parameters, ajv, errors, err, calls>>

NextLocate ==
    \/ Locate
    \/ \E sch \in (IF Truthy(schema) THEN {schema} ELSE {}) \cup ExtractSchemas,
          request \in Requests : Extract(sch, request)

SpecLocate == InitLocate /\ [][NextLocate]_vars

(***************************************************************************)
(* What the specification says of a path, independently of the code        *)
(***************************************************************************)
FacetNames == {"params", "body", "query", "headers", "cookies", "files"}

\* the path is omitted (the empty string counts as omitted)
Omitted(sp) == sp.k = "undef" \/ (sp.k = "pstr" /\ sp.chars = <<>>)
WellWritten(sp) ==
    sp.k = "pstr" /\ \E wp \in WrittenPaths : wp.chars = sp.chars

\* walking the segments over existing keys; Undef when a segment does not
\* resolve
RECURSIVE Walk(_, _)
Walk(v, segs) ==
    IF segs = <<>> THEN v
    ELSE IF v.k \in {"obj", "arr"} /\ Head(segs) \in Keys(v)
    THEN Walk(Get(v, Head(segs)), Tail(segs))
    ELSE Undef

\* the located value
Addressed(config, sp) ==
    IF Omitted(sp) THEN config ELSE Walk(config, SegmentsOf(sp.chars))

PathUnderstood == Omitted(schemaProperty) \/ WellWritten(schemaProperty)
Located == Addressed(parameters, schemaProperty)

\* already shaped as a full object schema
FullObject(t) ==
    /\ t.k = "obj"
    /\ "type" \in DOMAIN t.f
    /\ t.f["type"] = Str("object")
    /\ "properties" \in DOMAIN t.f

Called(op) == \E i \in DOMAIN calls : calls[i].op = op
AfterValidate ==
    LET i == CHOOSE j \in DOMAIN calls : calls[j].op = "validate"
    IN  SubSeq(calls, i + 1, Len(calls))
Fixed400 == <<[op |-> "res.status", arg |-> Num(400)],
              [op |-> "res.json", arg |-> err]>>
Handed(fn) ==
    <<[op |-> "onerror", arg |-> err, fn |-> fn,
       rest |-> <<"req", "res", "next">>]>>

(***************************************************************************)
(* Claims                                                                  *)
(***************************************************************************)
\* C1: on every validation failure exactly one failure path runs, in strict
\* precedence: the route's onerror if it is a function, else the factory's
\* onerror if it is a function, else the fixed 400 response; a non-callable
\* value at either level never aborts the request.
C1_FailurePrecedence ==
    errors # Null =>
        LET r == Get(parameters, "onerror")
        IN  /\ outcome # "thrown"
            /\ r.k = "fn" => AfterValidate = Handed(r)
            /\ (r.k # "fn" /\ onerror.k = "fn") => AfterValidate = Handed(onerror)
            /\ (r.k # "fn" /\ onerror.k # "fn") => AfterValidate = Fixed400

C1_Witness ==
    /\ errors # Null
    /\ Get(parameters, "onerror") = Str("routeOnerror")
    /\ onerror = defaultOnerror
    /\ outcome = "defaultOnerror"

\* C2: whenever the route configuration lacks a locatable schema (absent
\* configuration, unresolved path segment, non-object or array target) the
\* located schema is null and the middleware only calls next(), once.
C2_NoSchemaCallsNext ==
    (outcome # "idle" /\ PathUnderstood /\ Located.k # "obj") =>
        /\ schema = Null
        /\ calls = <<[op |-> "next", arg |-> Undef]>>

\* C3: for every config and path, the omitted path included, locate returns
\* null whenever the located value is not a non-array object.
C3_NonObjectLocatesNull ==
    (outcome = "located" /\ PathUnderstood /\ Located.k # "obj") =>
        schema = Null

\* C4: a located object with type === "object" and a properties key is
\* returned unchanged, extra keys included.
C4_FullObjectUnchanged ==
    (outcome = "located" /\ PathUnderstood /\ FullObject(Located)) =>
        schema = Located

C4_Witness ==
    /\ outcome = "located"
    /\ schemaProperty = PStr(<<"a", "[", "b", "]">>)
    /\ schema = With(BodyObject, "required", Arr(<<Str("body")>>))

\* C5: a located non-array object without both type === "object" and a
\* properties key is wrapped as {type: "object", properties: <it>}.
C5_OtherObjectsWrapped ==
    (outcome = "located" /\ PathUnderstood /\ Located.k = "obj"
       /\ ~FullObject(Located)) =>
        schema = Obj([type |-> Str("object"), properties |-> Located])

\* C6: every schema handed to the engine has type "object" and a properties
\* mapping whose keys are all facet names.
C6_CompiledSchemaCanonical ==
    Called("compile") =>
        /\ schema.k = "obj"
        /\ {"type", "properties"} \subseteq DOMAIN schema.f
        /\ schema.f["type"] = Str("object")
        /\ schema.f["properties"].k = "obj"
        /\ DOMAIN schema.f["properties"].f \subseteq FacetNames

\* C7: extract returns exactly the facets named by the keys of
\* schema.properties, whatever is stored under them, each bound to the
\* request's own value, and nothing when properties is absent or not an
\* object.
C7_ExtractedFacets ==
    outcome = "extracted" =>
        LET props == IF schema.k = "obj" /\ "properties" \in DOMAIN schema.f
                     THEN schema.f["properties"] ELSE Undef
            named == IF props.k \in {"obj", "arr"}
                     THEN FacetNames \cap Keys(props) ELSE {}
        IN  /\ values.k = "obj"
            /\ DOMAIN values.f = named
            /\ \A key \in named : values.f[key] = req[key]

C7_Witness ==
    /\ outcome = "extracted"
    /\ schema.k = "obj" /\ "properties" \in DOMAIN schema.f
    /\ schema.f["properties"] =
          Obj([body |-> Str("string"), query |-> Undef, other |-> StringSchema])
    /\ DOMAIN values.f = {"body", "query"}
    /\ req["params"] # Undef
    /\ values.f["body"] = EmptyObj

\* C8: a path locates what the dotted path with the same segment sequence
\* locates, however its segments are written (bracket-indexed or
\* dot-separated) and whatever empty segments it holds.
C8_WritingIrrelevant ==
    (outcome = "located" /\ schemaProperty.k = "pstr") =>
        \A wp \in WrittenPaths :
            wp.chars = schemaProperty.chars =>
                schema = retrieveSchema(parameters, PStr(Dotted(wp.segs)))

C8_Witness ==
    /\ outcome = "located"
    /\ schemaProperty = PStr(<<".", "a", ".", "[", "b", "]", ".">>)
    /\ parameters = Obj([a |-> Obj([b |-> BodyFacets])])
    /\ schema = BodyObject

\* C9: one default engine is built at factory creation from the default
\* options and serves every request without per-route options; a request
\* with a schema and per-route options builds one new engine from them,
\* which no other request uses.
C9_EngineInstances ==
    /\ defaultAjv = 1
    /\ ajvInstances[defaultAjv] = options
    /\ Len(ajvInstances) =
          1 + Cardinality({i \in DOMAIN ajvUsed :
                              ajvUsed[i] \notin {NoAjv, defaultAjv}})
    /\ \A i, j \in DOMAIN ajvUsed :
          (i < j /\ ajvUsed[i] = ajvUsed[j]) => ajvUsed[i] \in {NoAjv, defaultAjv}
    /\ Called("compile") =>
          LET o == Get(parameters, "validatorJsonOptions")
              c == CHOOSE i \in DOMAIN calls : calls[i].op = "compile"
          IN  /\ calls[c].ajv = ajv
              /\ ajv = ajvUsed[Len(ajvUsed)]
              /\ IF o.k = "obj"
                 THEN /\ ajv # defaultAjv
                      /\ ajv = Len(ajvInstances)
                      /\ ajvInstances[ajv] = o
                 ELSE ajv = defaultAjv

C9_Witness ==
    /\ ajvUsed = <<2, 3>>
    /\ ajvInstances = <<DefaultOptions, RouteOptions, EmptyObj>>
    /\ outcome = "next"

\* C10: the error payload is exactly {errors: E}, E being validate.errors
\* as the engine left it; without a callable handler the response is sent
\* with status 400 and that payload, and next is not called.
C10_PayloadAndFixed400 ==
    errors # Null =>
        /\ err = Obj([errors |-> errors])
        /\ outcome = "sent400" =>
              /\ AfterValidate = Fixed400
              /\ ~Called("next")
              /\ calls[Len(calls)].arg = Obj([errors |-> errors])

C10_Witness ==
    /\ outcome = "sent400"
    /\ errors = Arr(<<ErrType, ErrRequired>>)
    /\ onerror = Str("onerror")
    /\ Len(calls) = 4

\* C11: with a schema property name, only the addressed sub-object
\* contributes: the schema's properties are that sub-object (or its own
\* properties), and the facets extracted are those it names, never a sibling
\* key of the configuration.
C11_OnlyAddressedSubObject ==
    (outcome # "idle" /\ WellWritten(schemaProperty) /\ schema # Null) =>
        LET props == schema.f["properties"]
        IN  /\ props = Located
               \/ ("properties" \in Keys(Located)
                     /\ props = Get(Located, "properties"))
            /\ values.k = "obj"
            /\ DOMAIN values.f = FacetNames \cap Keys(props)

C11_Witness ==
    /\ schemaProperty = PStr(<<"schema">>)
    /\ parameters \in {Obj([schema |-> QueryFacets, otherField |-> BodyFacets]),
                       Obj([schema |-> QueryFacets, body |-> BodySchema])}
    /\ DOMAIN values.f = {"query"}
    /\ outcome = "next"

\* Scenario B: the route's parameters are sch itself, no error handler at
\* either level, and the request's body is {}
ScenarioB(sch) ==
    /\ outcome # "idle"
    /\ Omitted(schemaProperty)
    /\ parameters = sch
    /\ onerror.k # "fn"
    /\ req["body"] = EmptyObj

\* validate.errors holds an error for the missing required name of the body
MissingName ==
    /\ errors.k = "arr"
    /\ \E i \in DOMAIN errors.e :
          errors.e[i] =
              Obj([keyword |-> Str("required"), instancePath |-> Str("/body"),
                   params |-> Obj([missingProperty |-> Str("name")])])

\* C12 as stated: with the schema of Scenario A as written (no required
\* keyword) a request whose body is {} is judged invalid for the missing
\* name and answered with the fixed 400.
C12_ScenarioB_AsWritten ==
    ScenarioB(BodyObject) =>
        /\ MissingName
        /\ outcome = "sent400"
        /\ AfterValidate = Fixed400

\* C12 amended: Scenario B holds when the body schema lists name as
\* required; with the schema as written the body {} is valid, next() is
\* called and no response is written.
C12_ScenarioB_Amended ==
    /\ ScenarioB(RequiredBodyObject) =>
          /\ MissingName
          /\ err = Obj([errors |-> errors])
          /\ outcome = "sent400"
          /\ AfterValidate = Fixed400
    /\ ScenarioB(BodyObject) =>
          /\ errors = Null
          /\ outcome = "next"
          /\ AfterValidate = <<[op |-> "next", arg |-> Undef]>>

C12_Witness ==
    /\ ScenarioB(RequiredBodyObject)
    /\ values = Obj([body |-> EmptyObj])
    /\ outcome = "sent400"

Count(op) == Cardinality({i \in DOMAIN calls : calls[i].op = op})

\* C13: an invocation in which the engine does not fail ends in exactly one
\* of: the middleware calls next(), an error handler is invoked, the fixed
\* 400 is sent.  The middleware calls next() exactly when no schema was
\* located or the values are valid, writes a response only on the fixed
\* path, and compiles and validates at most once.
C13_OneTerminalOutcome ==
    outcome \notin {"idle", "thrown"} =>
        LET nexts == Count("next")
            handed == Count("onerror")
            sent == Count("res.status")
            valid == Called("validate") /\ errors = Null
            handler == Get(parameters, "onerror").k = "fn" \/ onerror.k = "fn"
        IN  /\ \/ nexts = 1 /\ handed = 0 /\ sent = 0
               \/ nexts = 0 /\ handed = 1 /\ sent = 0
               \/ nexts = 0 /\ handed = 0 /\ sent = 1
            /\ Count("res.json") = sent
            /\ nexts = 1 <=> (schema = Null \/ valid)
            /\ sent = 1 <=> (errors # Null /\ ~handler)
            /\ Count("compile") <= 1
            /\ Count("validate") <= 1
            /\ Count("compile") = Count("validate")
            /\ schema # Null => Count("validate") = 1

C13_Witness ==
    /\ outcome = "routeOnerror"
    /\ Count("compile") = 1
    /\ Count("validate") = 1
    /\ Count("next") = 0

\* the engine failed: an instance was being built or a schema compiled, and
\* no validation followed
EngineFailed ==
    \/ Called("new Ajv") /\ ~Called("compile")
    \/ Called("compile") /\ ~Called("validate")

\* C14: when building the per-route engine or compiling fails, the failure
\* leaves the middleware unrecovered: no next(), no error handler, no fixed
\* 400; and the step that handles the following request finds the factory's
\* arguments and its default engine as they were.
C14_FailurePropagates ==
    /\ [](EngineFailed =>
            /\ outcome = "thrown"
            /\ Count("next") = 0
            /\ Count("onerror") = 0
            /\ Count("res.status") = 0
            /\ Count("res.json") = 0
            /\ errors = Null
            /\ err = Undef)
    /\ [][EngineFailed =>
            /\ UNCHANGED <<options, onerror, schemaProperty, defaultAjv>>
            /\ ajvInstances'[defaultAjv'] = options
            /\ outcome' # "idle"
            /\ (Called("compile") /\ ~Called("new Ajv"))' => ajv' = defaultAjv]_vars

C14_Witness ==
    /\ Len(ajvUsed) = 2
    /\ ajvUsed[1] = 2
    /\ outcome = "thrown"
    /\ Called("new Ajv")
    /\ Called("compile")
    /\ ajv = 3

\* C15: the overrides are read at the top level of the route configuration
\* only, whatever the schema property name: the engine is a new one exactly
\* when the top level carries options, the handler invoked is the top-level
\* onerror or else the factory's, never a key of the addressed sub-object,
\* and nothing is read when no schema was located.
C15_OverridesTopLevelOnly ==
    outcome # "idle" =>
        LET top(key) == IF parameters.k = "obj" /\ key \in DOMAIN parameters.f
                        THEN parameters.f[key] ELSE Undef
        IN  /\ schema = Null => calls = <<[op |-> "next", arg |-> Undef]>>
            /\ schema # Null =>
                  /\ Called("new Ajv") <=> top("validatorJsonOptions").k = "obj"
                  /\ Called("new Ajv") =>
                        calls[1] = [op |-> "new Ajv",
                                    arg |-> top("validatorJsonOptions")]
                  /\ \A i \in DOMAIN calls :
                        calls[i].op = "onerror" =>
                            calls[i].fn = IF top("onerror").k = "fn"
                                          THEN top("onerror") ELSE onerror
                  /\ (errors # Null /\ top("onerror").k = "fn") =>
                        outcome = "routeOnerror"
                  /\ outcome = "routeOnerror" => top("onerror").k = "fn"

C15_Witness ==
    /\ schemaProperty = PStr(<<"schema">>)
    /\ parameters = Obj([schema |-> With(BodyFacets, "onerror", routeOnerror),
                         validatorJsonOptions |-> RouteOptions])
    /\ outcome = "defaultOnerror"
    /\ ajv = 2

====
